---- MODULE Spec2Model ----
\* Model of translateQiita.py: pairing of original articles with their
\* translations (find_new_items), the fence-preserving chunked translation
\* (QiitaArticle._get_translated_body) and the dispatch loop (program).
\* Texts are sequences of one-character strings.
EXTENDS Integers, Sequences, FiniteSets, TLC

\* ---------------------------------------------------------------- bounds
MaxItems == 3
MaxTime == 2
MaxTokens == 4
MaxStale == 1
MaxCurrent == 1
MaxNew == 1

\* ---------------------------------------------------------------- text
\* str.find: lowest 0-based index of sub in s, or -1
Find(s, sub) ==
    LET hits == {k \in 1..(Len(s) - Len(sub) + 1) :
                    s[k] = sub[1] /\ SubSeq(s, k, k + Len(sub) - 1) = sub}
    IN IF sub = <<>> THEN 0
       ELSE IF hits = {} THEN -1
       ELSE (CHOOSE k \in hits : \A m \in hits : k <= m) - 1

\* str.split(sep) for a non-empty sep: leftmost, non-overlapping
RECURSIVE Split(_, _)
Split(s, sep) ==
    LET k == Find(s, sep)
    IN IF k < 0 THEN <<s>>
       ELSE <<SubSeq(s, 1, k)>> \o Split(SubSeq(s, k + Len(sep) + 1, Len(s)), sep)

\* str.replace(old, new): every leftmost non-overlapping occurrence
RECURSIVE Replace(_, _, _)
Replace(s, old, new) ==
    LET k == Find(s, old)
    IN IF k < 0 THEN s
       ELSE SubSeq(s, 1, k) \o new \o Replace(SubSeq(s, k + Len(old) + 1, Len(s)), old, new)

\* target_dict of _delete_redundant_space, in insertion order
target_dict ==
    << <<<<":", " ", "|">>, <<":", "|">>>>,
       <<<<"|", ":", " ">>, <<"|", ":">>>>,
       <<<<"\"", " ">>, <<"\"">>>>,
       <<<<" ", "\"">>, <<"\"">>>>,
       <<<<"/", " ">>, <<"/">>>>,
       <<<<" ", "/">>, <<"/">>>>,
       <<<<"\\", " ">>, <<"\\">>>>,
       <<<<" ", "\\">>, <<"\\">>>>,
       <<<<"$", " ">>, <<"$">>>>,
       <<<<" ", "$">>, <<"$">>>>,
       <<<<"!", " ", "[">>, <<"!", "[">>>> >>

RECURSIVE ReplaceKeys(_, _)
ReplaceKeys(original_str, n) ==
    IF n > Len(target_dict) THEN original_str
    ELSE ReplaceKeys(Replace(original_str, target_dict[n][1], target_dict[n][2]), n + 1)

\* QiitaArticle._delete_redundant_space
delete_redundant_space(original_str) == ReplaceKeys(original_str, 1)

\* mutant: the banner names neither the article nor its url
Banner_NoId(articleid, url) ==
    <<"*", "*", "T", "r", "a", "n", "s", "l", "a", "t", "i", "o", "n", " ", "o", "f", "\n">> \o <<"*", "*", "\n", "\n">>

\* the banner _get_translated_body starts the body with
banner_head == <<"*", "*", "T", "h", "i", "s", " ", "a", "r", "t", "i", "c", "l", "e", " ", "i", "s", " ", "a", "n", " ", "a", "u", "t", "o", "m", "a", "t", "i", "c", " ", "t", "r", "a", "n", "s", "l", "a", "t", "i", "o", "n", " ", "o", "f", " ", "t", "h", "e", " ", "a", "r", "t", "i", "c", "l", "e", "[">>
banner_mid == <<"]", " ", "b", "e", "l", "o", "w", ".", "\n">>
banner_tail == <<"*", "*", "\n", "\n">>
Banner(articleid, url) == banner_head \o articleid \o banner_mid \o url \o banner_tail

\* the backquote character, written ~ here (a string of the module cannot hold a
\* backquote); no other text of the model contains ~
tick == "~"
fence == <<tick, tick, tick>>
prefix == <<"\n", "\n">> \o fence
suffix == fence \o <<"\n", "\n">>
chunk_size == 2000

\* [element[i: i+chunk_size] for i in range(0, len(element), chunk_size)]
ChunkList(element) ==
    [c \in 1..((Len(element) + chunk_size - 1) \div chunk_size) |->
        SubSeq(element, (c - 1) * chunk_size + 1,
               IF c * chunk_size < Len(element) THEN c * chunk_size ELSE Len(element))]

\* mutant: a long element is sent whole
Pieces_Whole(element) == <<element>>

\* the texts one prose element is sent to the translator as
Pieces(element) == IF Len(element) > chunk_size THEN ChunkList(element) ELSE <<element>>

\* translator.translate(text, dest=en).text for the backend of this run:
\* "identity" returns the text, "artifacts" renders a as b and puts a space
\* after every slash
Backends == {"identity", "artifacts"}
Translate(kind, text) ==
    IF kind = "identity" THEN text
    ELSE Replace([k \in 1..Len(text) |-> IF text[k] = "a" THEN "b" ELSE text[k]],
                 <<"/">>, <<"/", " ">>)

RECURSIVE Concat(_)
Concat(texts) == IF texts = <<>> THEN <<>> ELSE Head(texts) \o Concat(Tail(texts))

IdChars == <<"p", "q", "r", "s", "u", "v">>
IdOf(k) == <<IdChars[((k - 1) \div Len(IdChars)) + 1], IdChars[((k - 1) % Len(IdChars)) + 1]>>

\* ---------------------------------------------------------------- articles
\* QiitaArticle.has_banner, called on the article built from item
has_banner(item, articleid) == Find(item.body, articleid) >= 0

\* detect_lang: the language the external detector reports for the title
detect_lang(item) == item.lang

RECURSIVE FilterItems(_, _)
FilterItems(items, en) ==
    IF items = <<>> THEN <<>>
    ELSE IF (detect_lang(Head(items)) = "en") = en
         THEN <<Head(items)>> \o FilterItems(Tail(items), en)
         ELSE FilterItems(Tail(items), en)

\* divide_items_by_lang, returned as a record of the two buckets
divide_items_by_lang(items) ==
    [original_items |-> FilterItems(items, FALSE),
     translated_items |-> FilterItems(items, TRUE)]

\* keys of new_items: a Python int or a Python str (an article id)
IntKey(i) == [kind |-> "int", n |-> i, s |-> <<>>]
StrKey(s) == [kind |-> "str", n |-> 0, s |-> s]

\* new_items[key] = value on an insertion-ordered dict
DictSet(d, key, value) ==
    IF \E k \in 1..Len(d) : d[k].key = key
    THEN [k \in 1..Len(d) |-> IF d[k].key = key THEN [key |-> key, value |-> value] ELSE d[k]]
    ELSE Append(d, [key |-> key, value |-> value])

\* mutant: a translation as new as the original counts as older
IsOlder_OrEqual(translation, origin) == translation.updated_at <= origin.updated_at

\* translation.get_updated_at() < origin.get_updated_at()
IsOlder(translation, origin) == translation.updated_at < origin.updated_at

\* inner for/else of find_new_items: scan the translations from position j
RECURSIVE ScanTranslations(_, _, _, _, _)
ScanTranslations(new_items0, i, original_item, translated_items, j) ==
    IF j > Len(translated_items)
    THEN DictSet(new_items0, IntKey(i), original_item)
    ELSE IF has_banner(translated_items[j], original_item.id)
         THEN IF IsOlder(translated_items[j], original_item)
              THEN DictSet(new_items0, StrKey(translated_items[j].id), original_item)
              ELSE new_items0
         ELSE ScanTranslations(new_items0, i, original_item, translated_items, j + 1)

RECURSIVE FindLoop(_, _, _, _)
FindLoop(new_items0, original_items, translated_items, i) ==
    IF i >= Len(original_items) THEN new_items0
    ELSE FindLoop(ScanTranslations(new_items0, i, original_items[i + 1], translated_items, 1),
                  original_items, translated_items, i + 1)

find_new_items(items) ==
    LET d == divide_items_by_lang(items)
    IN FindLoop(<<>>, d.original_items, d.translated_items, 0)

\* ---------------------------------------------------------------- corpora
UrlOf(id) == <<"/">> \o id

\* the items whose ids the body of a translation may mention
RefItems == {1, 2}

RECURSIVE RefBody(_, _)
\* a body that mentions, in ascending order, the ids of the items numbered in S
RefBody(S, k) ==
    IF \A m \in S : m < k THEN <<>>
    ELSE (IF k \in S THEN <<"[">> \o IdOf(k) \o <<"]">> ELSE <<>>) \o RefBody(S, k + 1)

Langs == {"ja", "en"}

\* an item as the Qiita API returns it (the fields the program reads); lang is
\* what the language detector answers for its title
ItemOf(k, lang, time, body) ==
    [id |-> IdOf(k), title |-> <<"t", "a">>, lang |-> lang, updated_at |-> time,
     url |-> UrlOf(IdOf(k)), body |-> body]

\* the body of the originals: prose, a fenced block, prose
SourceBody == <<"a", "/", " ">> \o fence \o <<"/", " ">> \o fence \o <<"a">>

MkItem(k, lang, time, S) ==
    ItemOf(k, lang, time, IF lang = "en" THEN <<"x">> \o RefBody(S, 1) ELSE SourceBody)

\* the corpus of n items with the given languages, times and mentioned ids
Corpus(n, lang, time, refs) == [k \in 1..n |-> MkItem(k, lang[k], time[k], refs[k])]

\* ---------------------------------------------------------------- state
VARIABLES
    items,            \* the corpus get_items returned
    new_items,        \* the worklist: an insertion-ordered dict, as a sequence of entries
    pc,               \* where the program is
    backend,          \* how the translation backend behaves in this run
    article,          \* the item of the QiitaArticle being translated
    split_body_list,  \* _get_translated_body: the segments, translated in place
    i,                \* _get_translated_body: the index of the segment at hand
    translated_body,  \* _get_translated_body: the body built so far
    sent,             \* the texts _get_translated_body passed to the backend, with their segment
    fail_at,          \* which call of the backend raised, if one did
    auto,             \* args.auto
    page_start,       \* program: the first article number of the page shown
    key_input,        \* program: the kind of the last menu input
    key,              \* program: the loop variable key
    update_status,    \* article._update_status
    idx,              \* program: the position of the upload loops in new_items
    ret,              \* which call site of program the upload returns to
    method,           \* the request the running upload will send, and the id it names
    title,            \* upload: the translated title
    requests,         \* the requests sent to the Qiita API in this run
    published         \* after the run: which item holds the translation of which

bodyVars == <<article, split_body_list, i, translated_body, sent>>
progVars == <<auto, page_start, key_input, key, update_status, idx, ret, method, title,
              requests, published>>
vars == <<items, new_items, pc, backend, bodyVars, fail_at, progVars>>

NoKey == [kind |-> "none", n |-> 0, s |-> <<>>]
NoMethod == [verb |-> "none", id |-> <<>>]
InitProgVars ==
    /\ page_start = 0
    /\ key_input = "none"
    /\ key = NoKey
    /\ update_status = "unset"
    /\ idx = 0
    /\ ret = "none"
    /\ method = NoMethod
    /\ title = <<>>
    /\ requests = <<>>
    /\ published = <<>>

NoItem == [id |-> <<>>, title |-> <<>>, lang |-> "ja", updated_at |-> 0, url |-> <<>>, body |-> <<>>]

\* ---------------------------------------------------------------- matching
InitMatch ==
    /\ \E n \in 0..MaxItems :
          \E lang \in [1..n -> Langs], time \in [1..n -> 1..MaxTime],
             refs \in [1..n -> SUBSET RefItems] :
              items = Corpus(n, lang, time, refs)
    /\ new_items = <<>>
    /\ pc = "fetched"
    /\ backend = "identity"
    /\ article = NoItem
    /\ split_body_list = <<>>
    /\ i = 0
    /\ translated_body = <<>>
    /\ sent = <<>>
    /\ fail_at = "none"
    /\ auto = FALSE
    /\ InitProgVars

\* new_items = find_new_items(items)
FindNew ==
    /\ pc = "fetched"
    /\ new_items' = find_new_items(items)
    /\ pc' = "matched"
    /\ UNCHANGED <<items, backend, bodyVars, fail_at, progVars>>

NextMatch == FindNew

SpecMatch == InitMatch /\ [][NextMatch]_vars

\* ---------------------------------------------------------------- _get_translated_body
\* lines 117-127: split the body on the fence and start from the banner
BodyBegin ==
    /\ pc = "body_begin"
    /\ split_body_list' = Split(article.body, fence)
    /\ translated_body' = Banner(article.id, article.url)
    /\ i' = 0
    /\ sent' = <<>>
    /\ pc' = "body_loop"
    /\ UNCHANGED <<items, new_items, backend, article, fail_at, progVars>>

\* mutant: the text after an unterminated fence is taken for prose
IsProse_Trailing(n) == n % 2 = 0 \/ n + 1 = Len(split_body_list)

\* line 129: i%2 == 0
IsProse(n) == n % 2 = 0

\* mutant: the separator is appended after the last segment too
IsLast_Never == FALSE

\* line 139, 144
IsLast == i + 1 = Len(split_body_list) \/ Len(split_body_list) = 1

Logged(pieces, n) == [c \in 1..n |-> [seg |-> i, text |-> pieces[c]]]

\* lines 129-142: an even segment is translated (in pieces when longer than
\* chunk_size), repaired and appended, followed by prefix unless it is the last
BodyProse ==
    /\ pc = "body_loop"
    /\ i < Len(split_body_list)
    /\ IsProse(i)
    /\ LET pieces == Pieces(split_body_list[i + 1])
           translated == Concat([c \in 1..Len(pieces) |-> Translate(backend, pieces[c])])
           repaired == delete_redundant_space(translated)
       IN /\ split_body_list' = [split_body_list EXCEPT ![i + 1] = repaired]
          /\ translated_body' = translated_body \o repaired \o (IF IsLast THEN <<>> ELSE prefix)
          /\ sent' = sent \o Logged(pieces, Len(pieces))
    /\ i' = i + 1
    /\ UNCHANGED <<items, new_items, pc, backend, article, fail_at, progVars>>

\* lines 134, 136: a call of the backend raises; the exception leaves the method
BodyProseFail ==
    /\ pc = "body_loop"
    /\ i < Len(split_body_list)
    /\ IsProse(i)
    /\ LET pieces == Pieces(split_body_list[i + 1])
       IN \E c \in 1..Len(pieces) : sent' = sent \o Logged(pieces, c)
    /\ pc' = "failed"
    /\ fail_at' = "body"
    /\ UNCHANGED <<items, new_items, backend, article, split_body_list, i, translated_body,
                   progVars>>

\* mutant: the whitespace repair is applied to the odd segments too
BodyCode_Repaired ==
    /\ pc = "body_loop"
    /\ i < Len(split_body_list)
    /\ i % 2 = 1
    /\ split_body_list' = [split_body_list EXCEPT ![i + 1] = delete_redundant_space(@)]
    /\ translated_body' = translated_body \o delete_redundant_space(split_body_list[i + 1])
                              \o (IF i + 1 = Len(split_body_list) THEN <<>> ELSE suffix)
    /\ i' = i + 1
    /\ UNCHANGED <<items, new_items, pc, backend, article, sent, fail_at, progVars>>

\* lines 143-147: an odd segment is appended as it is, followed by suffix unless
\* it is the last
BodyCode ==
    /\ pc = "body_loop"
    /\ i < Len(split_body_list)
    /\ ~IsProse(i)
    /\ translated_body' = translated_body \o split_body_list[i + 1] \o (IF IsLast THEN <<>> ELSE suffix)
    /\ i' = i + 1
    /\ UNCHANGED <<items, new_items, pc, backend, article, split_body_list, sent, fail_at,
                   progVars>>

\* line 149
BodyReturn ==
    /\ pc = "body_loop"
    /\ i = Len(split_body_list)
    /\ pc' = "body_done"
    /\ UNCHANGED <<items, new_items, backend, bodyVars, fail_at, progVars>>

Long == [k \in 1..chunk_size |-> "a"]
Tokens == <<fence, <<"a", tick>>, <<"/", " ">>, Long>>
\* the body made of the tokens numbered f[1], ..., f[n]
BodyOf(n, f) == Concat([k \in 1..n |-> Tokens[f[k]]])

InitBody ==
    /\ items = <<>>
    /\ new_items = <<>>
    /\ pc = "body_begin"
    /\ backend \in Backends
    /\ \E n \in 0..MaxTokens :
          \E f \in [1..n -> 1..Len(Tokens)] : article = ItemOf(1, "ja", 1, BodyOf(n, f))
    /\ split_body_list = <<>>
    /\ i = 0
    /\ translated_body = <<>>
    /\ sent = <<>>
    /\ fail_at = "none"
    /\ auto = FALSE
    /\ InitProgVars

NextBody == BodyBegin \/ BodyProse \/ BodyProseFail \/ BodyCode \/ BodyReturn

SpecBody == InitBody /\ [][NextBody]_vars

\* ---------------------------------------------------------------- upload_translation, update_translation
\* _get_translated_title (lines 163, 199) succeeds
TitleOk ==
    /\ pc = "body_done"
    /\ title' = Translate(backend, article.title)
    /\ pc' = "publish"
    /\ UNCHANGED <<items, new_items, backend, bodyVars, fail_at, auto, page_start, key_input,
                   key, update_status, idx, ret, method, requests, published>>

\* mutant: the exception is swallowed and the untranslated title is published
TitleFail_Swallowed ==
    /\ pc = "body_done"
    /\ title' = article.title
    /\ pc' = "publish"
    /\ fail_at' = "title"
    /\ UNCHANGED <<items, new_items, backend, bodyVars, auto, page_start, key_input,
                   key, update_status, idx, ret, method, requests, published>>

\* _get_translated_title: the call of the backend raises
TitleFail ==
    /\ pc = "body_done"
    /\ pc' = "failed"
    /\ fail_at' = "title"
    /\ UNCHANGED <<items, new_items, backend, bodyVars, progVars>>

\* the request post (line 189) or patch (line 223) sends; source is the id of the
\* article it was built from
Request(ok) ==
    [verb |-> method.verb, id |-> method.id, body |-> translated_body, title |-> title,
     source |-> article.id, ok |-> ok]

\* lines 189-192, 223-226: the request is accepted and the method returns to its
\* call site in program
PublishOk ==
    /\ pc = "publish"
    /\ requests' = Append(requests, Request(TRUE))
    /\ pc' = IF ret = "auto" THEN "auto_loop" ELSE "print"
    /\ idx' = IF ret = "auto" THEN idx + 1 ELSE idx
    /\ UNCHANGED <<items, new_items, backend, bodyVars, fail_at, auto, page_start, key_input,
                   key, update_status, ret, method, title, published>>

\* verify_response (lines 263-267): a status other than 200 or 201 ends the program
PublishRejected ==
    /\ pc = "publish"
    /\ requests' = Append(requests, Request(FALSE))
    /\ pc' = "exited"
    /\ UNCHANGED <<items, new_items, backend, bodyVars, fail_at, auto, page_start, key_input,
                   key, update_status, idx, ret, method, title, published>>

\* ---------------------------------------------------------------- program
articles_per_page == 10

\* mutant: every key is taken for an integer
IsIntKey_Always(k) == TRUE

\* type(key) == int (lines 376, 392, 432, 447)
IsIntKey(k) == k.kind = "int"

\* the request the upload of the entry under key k sends: upload_translation
\* posts a new item, update_translation(k) patches the item k
MethodFor(k) ==
    IF IsIntKey(k) THEN [verb |-> "POST", id |-> <<>>] ELSE [verb |-> "PATCH", id |-> k.s]

LastEntry == new_items[Len(new_items)]

\* line 361
Enter ==
    /\ pc = "matched"
    /\ pc' = IF auto THEN "auto_loop" ELSE "menu"
    /\ idx' = 0
    /\ UNCHANGED <<items, new_items, backend, bodyVars, fail_at, auto, page_start, key_input,
                   key, update_status, ret, method, title, requests, published>>

\* lines 365-367: nothing to translate
MenuEmpty ==
    /\ pc = "menu"
    /\ Len(new_items) = 0
    /\ pc' = "finished"
    /\ UNCHANGED <<items, new_items, backend, bodyVars, fail_at, progVars>>

\* lines 373-398: the page is listed, a valid article number is entered and the
\* entry at that position is selected
MenuSelect ==
    /\ pc = "menu"
    /\ Len(new_items) > 0
    /\ \E number \in 0..(Len(new_items) - 1) :
          /\ key' = new_items[number + 1].key
          /\ article' = new_items[number + 1].value
          /\ update_status' = IF IsIntKey(new_items[number + 1].key) THEN "NEW" ELSE "UPDATE"
    /\ key_input' = "number"
    /\ pc' = "confirm"
    /\ UNCHANGED <<items, new_items, backend, split_body_list, i, translated_body, sent,
                   fail_at, auto, page_start, idx, ret, method, title, requests, published>>

\* what the listing loop (lines 373-380) leaves in key and article
Listed ==
    /\ key' = LastEntry.key
    /\ article' = LastEntry.value
    /\ update_status' = "unset"

\* lines 399-400: a is entered
MenuAll ==
    /\ pc = "menu"
    /\ Len(new_items) > 0
    /\ Listed
    /\ key_input' = "a"
    /\ pc' = "confirm"
    /\ UNCHANGED <<items, new_items, backend, split_body_list, i, translated_body, sent,
                   fail_at, auto, page_start, idx, ret, method, title, requests, published>>

\* lines 401-406: n is entered
MenuNext ==
    /\ pc = "menu"
    /\ Len(new_items) > 0
    /\ Listed
    /\ key_input' = "n"
    /\ page_start' = IF Len(new_items) - 1 >= page_start + articles_per_page
                     THEN page_start + articles_per_page ELSE page_start
    /\ UNCHANGED <<items, new_items, pc, backend, split_body_list, i, translated_body, sent,
                   fail_at, auto, idx, ret, method, title, requests, published>>

\* lines 407-412: b is entered
MenuBack ==
    /\ pc = "menu"
    /\ Len(new_items) > 0
    /\ Listed
    /\ key_input' = "b"
    /\ page_start' = IF page_start - articles_per_page >= 0
                     THEN page_start - articles_per_page ELSE page_start
    /\ UNCHANGED <<items, new_items, pc, backend, split_body_list, i, translated_body, sent,
                   fail_at, auto, idx, ret, method, title, requests, published>>

\* lines 413-415: anything else, an article number out of range included
MenuInvalid ==
    /\ pc = "menu"
    /\ Len(new_items) > 0
    /\ Listed
    /\ key_input' = "other"
    /\ UNCHANGED <<items, new_items, pc, backend, split_body_list, i, translated_body, sent,
                   fail_at, auto, page_start, idx, ret, method, title, requests, published>>

\* lines 419-424: y confirms the selected article
ConfirmSingle ==
    /\ pc = "confirm"
    /\ key_input = "number"
    /\ method' = IF update_status = "NEW" THEN [verb |-> "POST", id |-> <<>>]
                 ELSE [verb |-> "PATCH", id |-> key.s]
    /\ ret' = "single"
    /\ pc' = "body_begin"
    /\ UNCHANGED <<items, new_items, backend, bodyVars, fail_at, auto, page_start, key_input,
                   key, update_status, idx, title, requests, published>>

\* lines 428-430: y confirms all articles
ConfirmAll ==
    /\ pc = "confirm"
    /\ key_input = "a"
    /\ idx' = 0
    /\ ret' = "all"
    /\ pc' = "all_loop"
    /\ UNCHANGED <<items, new_items, backend, bodyVars, fail_at, auto, page_start, key_input,
                   key, update_status, method, title, requests, published>>

\* lines 439-440: n
ConfirmNo ==
    /\ pc = "confirm"
    /\ pc' = "finished"
    /\ UNCHANGED <<items, new_items, backend, bodyVars, fail_at, progVars>>

\* lines 441-443: any other answer
ConfirmInvalid ==
    /\ pc = "confirm"
    /\ pc' = "menu"
    /\ UNCHANGED <<items, new_items, backend, bodyVars, fail_at, progVars>>

\* one pass of an upload loop: the entry at idx is uploaded or updated by its key
LoopStep ==
    /\ idx < Len(new_items)
    /\ key' = new_items[idx + 1].key
    /\ article' = new_items[idx + 1].value
    /\ method' = MethodFor(new_items[idx + 1].key)
    /\ update_status' = "unset"
    /\ pc' = "body_begin"

\* lines 430-435
AllStep ==
    /\ pc = "all_loop"
    /\ LoopStep
    /\ UNCHANGED <<items, new_items, backend, split_body_list, i, translated_body, sent,
                   fail_at, auto, page_start, key_input, idx, ret, title, requests, published>>

\* lines 437-438
AllDone ==
    /\ pc = "all_loop"
    /\ idx = Len(new_items)
    /\ pc' = "finished"
    /\ UNCHANGED <<items, new_items, backend, bodyVars, fail_at, progVars>>

\* lines 445-450
AutoStep ==
    /\ pc = "auto_loop"
    /\ LoopStep
    /\ ret' = "auto"
    /\ UNCHANGED <<items, new_items, backend, split_body_list, i, translated_body, sent,
                   fail_at, auto, page_start, key_input, idx, title, requests, published>>

\* line 451
AutoDone ==
    /\ pc = "auto_loop"
    /\ idx = Len(new_items)
    /\ pc' = "finished"
    /\ UNCHANGED <<items, new_items, backend, bodyVars, fail_at, progVars>>

\* lines 425-427, 436: the title is translated once more for the progress line
PrintUploaded ==
    /\ pc = "print"
    /\ pc' = IF ret = "all" THEN "all_loop" ELSE "finished"
    /\ idx' = IF ret = "all" THEN idx + 1 ELSE idx
    /\ UNCHANGED <<items, new_items, backend, bodyVars, fail_at, auto, page_start, key_input,
                   key, update_status, ret, method, title, requests, published>>

\* lines 425, 436: that call of the backend raises
PrintFail ==
    /\ pc = "print"
    /\ pc' = "failed"
    /\ fail_at' = "print"
    /\ UNCHANGED <<items, new_items, backend, bodyVars, progVars>>

\* ---------------------------------------------------------------- the next run
\* the item numbers the accepted POST requests of the run are stored under
RECURSIVE Created(_)
Created(n) ==
    IF n = 0 THEN 0
    ELSE Created(n - 1) + (IF requests[n].ok /\ requests[n].verb = "POST" THEN 1 ELSE 0)

\* the corpus after request n: a POST adds an item, a PATCH rewrites the item it
\* names; lang is what the detector answers for the new titles and time is the
\* time the server stamps
RECURSIVE Stored(_, _, _)
Stored(n, lang, time) ==
    IF n = 0 THEN items
    ELSE LET before == Stored(n - 1, lang, time)
             r == requests[n]
         IN IF ~r.ok THEN before
            ELSE IF r.verb = "POST"
                 THEN Append(before, [ItemOf(Len(before) + 1, lang, time, r.body)
                                         EXCEPT !.title = r.title])
                 ELSE [k \in 1..Len(before) |->
                          IF before[k].id = r.id
                          THEN [before[k] EXCEPT !.title = r.title, !.body = r.body,
                                                 !.lang = lang, !.updated_at = time]
                          ELSE before[k]]

\* the next get_items (lines 299-322) returns what the requests of this run left
Refetch ==
    /\ pc = "finished"
    /\ requests # <<>>
    /\ \E lang \in Langs, time \in 1..MaxTime : items' = Stored(Len(requests), lang, time)
    /\ published' = [n \in 1..Len(requests) |->
                        [source |-> requests[n].source,
                         id |-> IF requests[n].verb = "POST"
                                THEN IdOf(Len(items) + Created(n)) ELSE requests[n].id]]
    /\ pc' = "refetched"
    /\ UNCHANGED <<new_items, backend, bodyVars, fail_at, auto, page_start, key_input, key,
                   update_status, idx, ret, method, title, requests>>

\* line 328 of the next run
FindNewAgain ==
    /\ pc = "refetched"
    /\ new_items' = find_new_items(items)
    /\ pc' = "rematched"
    /\ UNCHANGED <<items, backend, bodyVars, fail_at, progVars>>

\* corpora of the program runs: stale pairs (original at time 2, translation at
\* time 1), current pairs (both at time 1) and new originals, the originals
\* first; pad adds a page of new originals
ProgCorpus(nStale, nCur, nNew) ==
    LET nPair == nStale + nCur
        nOrig == nPair + nNew
    IN [k \in 1..(nOrig + nPair) |->
          IF k <= nOrig
          THEN ItemOf(k, "ja", IF k <= nStale THEN 2 ELSE 1, SourceBody)
          ELSE ItemOf(k, "en", 1, Banner(IdOf(k - nOrig), UrlOf(IdOf(k - nOrig))) \o <<"b">>)]

ProgCorpora ==
    {ProgCorpus(nStale, nCur, nNew + pad) :
        nStale \in 0..MaxStale, nCur \in 0..MaxCurrent, nNew \in 0..MaxNew,
        pad \in {0, articles_per_page}}

InitProg ==
    /\ items \in ProgCorpora
    /\ new_items = <<>>
    /\ pc = "fetched"
    /\ backend \in Backends
    /\ article = NoItem
    /\ split_body_list = <<>>
    /\ i = 0
    /\ translated_body = <<>>
    /\ sent = <<>>
    /\ fail_at = "none"
    /\ auto \in BOOLEAN
    /\ InitProgVars

NextProg ==
    \/ FindNew \/ Enter
    \/ MenuEmpty \/ MenuSelect \/ MenuAll \/ MenuNext \/ MenuBack \/ MenuInvalid
    \/ ConfirmSingle \/ ConfirmAll \/ ConfirmNo \/ ConfirmInvalid
    \/ AllStep \/ AllDone \/ AutoStep \/ AutoDone
    \/ BodyBegin \/ BodyProse \/ BodyProseFail \/ BodyCode \/ BodyReturn
    \/ TitleOk \/ TitleFail \/ PublishOk \/ PublishRejected
    \/ PrintUploaded \/ PrintFail
    \/ Refetch \/ FindNewAgain

SpecProg == InitProg /\ [][NextProg]_vars

\* ---------------------------------------------------------------- claims on find_new_items
Originals == divide_items_by_lang(items).original_items
Translations == divide_items_by_lang(items).translated_items
WorklistValues == {new_items[k].value : k \in 1..Len(new_items)}

\* positions of the translations whose body contains o's id
Matches(o) == {j \in 1..Len(Translations) : Find(Translations[j].body, o.id) >= 0}
FirstMatch(o) == CHOOSE j \in Matches(o) : \A m \in Matches(o) : j <= m
HasEntry(k0, o) == \E k \in 1..Len(new_items) : new_items[k] = [key |-> k0, value |-> o]

\* C1 as stated: an original for which SOME translation is a current sibling is
\* never a worklist value, and an original no translation mentions is in the
\* worklist under its integer position.
C1_AnyCurrentSibling ==
    pc = "matched" =>
        \A oi \in 1..Len(Originals) :
            LET o == Originals[oi] IN
            /\ (\E j \in Matches(o) : Translations[j].updated_at >= o.updated_at)
                  => o \notin WorklistValues
            /\ Matches(o) = {} => HasEntry(IntKey(oi - 1), o)

\* C1 amended: an original whose FIRST matching translation (in bucket order) is
\* current is never a worklist value, and an original no translation mentions is in
\* the worklist under its integer position.
C1_FirstCurrentSibling ==
    pc = "matched" =>
        \A oi \in 1..Len(Originals) :
            LET o == Originals[oi] IN
            /\ (Matches(o) # {} /\ Translations[FirstMatch(o)].updated_at >= o.updated_at)
                  => o \notin WorklistValues
            /\ Matches(o) = {} => HasEntry(IntKey(oi - 1), o)

C1_Witness ==
    /\ pc = "matched"
    /\ \E oi \in 1..Len(Originals) :
           /\ Matches(Originals[oi]) # {}
           /\ Translations[FirstMatch(Originals[oi])].updated_at = Originals[oi].updated_at
           /\ Originals[oi] \notin WorklistValues
    /\ \E oi \in 1..Len(Originals) :
           Matches(Originals[oi]) = {} /\ Originals[oi] \in WorklistValues

\* C2: when the first translation mentioning o is strictly older than o the
\* worklist maps that translation's id to o; when it is as new or newer, o has
\* no worklist entry.
C2_StalenessTieBreak ==
    pc = "matched" =>
        \A oi \in 1..Len(Originals) :
            LET o == Originals[oi] IN
            Matches(o) # {} =>
                LET t == Translations[FirstMatch(o)] IN
                IF t.updated_at < o.updated_at
                THEN HasEntry(StrKey(t.id), o)
                ELSE o \notin WorklistValues

\* originals decided New (no match) or Stale (first match older)
Decided ==
    {oi \in 1..Len(Originals) :
        \/ Matches(Originals[oi]) = {}
        \/ Translations[FirstMatch(Originals[oi])].updated_at < Originals[oi].updated_at}

\* C10: every original decided New or Stale is the value of exactly one worklist
\* entry, the worklist has as many entries as there are such originals, and the
\* entries are in source-bucket order.
C10_NoEntryLost ==
    pc = "matched" =>
        /\ Len(new_items) = Cardinality(Decided)
        /\ \A oi \in Decided :
              Cardinality({k \in 1..Len(new_items) : new_items[k].value = Originals[oi]}) = 1
        /\ \A k, m \in 1..Len(new_items) :
              k < m => \E oi, j \in Decided :
                          /\ oi < j
                          /\ new_items[k].value = Originals[oi]
                          /\ new_items[m].value = Originals[j]

\* ---------------------------------------------------------------- claims on _get_translated_body
Segments == Split(article.body, fence)
BannerLen == Len(Banner(article.id, article.url))
AfterBanner == SubSeq(translated_body, BannerLen + 1, Len(translated_body))
SentOf(k) == SelectSeq(sent, LAMBDA e : e.seg = k)
SentTexts(k) == [c \in 1..Len(SentOf(k)) |-> SentOf(k)[c].text]

\* the number of leftmost non-overlapping occurrences of sub in s
RECURSIVE CountOcc(_, _)
CountOcc(s, sub) ==
    IF Find(s, sub) < 0 THEN 0
    ELSE 1 + CountOcc(SubSeq(s, Find(s, sub) + Len(sub) + 1, Len(s)), sub)

\* C3 as stated: with an identity backend the text after the banner is the
\* original body.
C3_RoundTrip ==
    (pc = "body_done" /\ backend = "identity") => AfterBanner = article.body

\* the body with its 1st, 3rd, ... fence preceded by a blank line, its 2nd, 4th, ...
\* fence followed by one, and the whitespace repair applied outside the fences
RECURSIVE Padded(_, _)
Padded(s, inCode) ==
    LET k == Find(s, fence)
        rest == SubSeq(s, k + Len(fence) + 1, Len(s))
    IN IF k < 0 THEN (IF inCode THEN s ELSE delete_redundant_space(s))
       ELSE IF inCode
            THEN SubSeq(s, 1, k) \o fence \o <<"\n", "\n">> \o Padded(rest, FALSE)
            ELSE delete_redundant_space(SubSeq(s, 1, k)) \o <<"\n", "\n">> \o fence
                    \o Padded(rest, TRUE)

\* C3 amended: with an identity backend the text after the banner is the original
\* body with two newlines inserted before every opening fence and after every
\* closing fence and the whitespace-repair replacements applied to the text
\* outside the fences; it is the body itself when the body has no fence and no
\* repair key.
C3_RoundTripPadded ==
    (pc = "body_done" /\ backend = "identity") =>
        /\ AfterBanner = Padded(article.body, FALSE)
        /\ (Len(Segments) = 1 /\ delete_redundant_space(article.body) = article.body)
              => AfterBanner = article.body

C3_Witness ==
    /\ pc = "body_done"
    /\ backend = "identity"
    /\ Len(Segments) = 3
    /\ delete_redundant_space(Segments[1]) # Segments[1]
    /\ Segments[2] # <<>>

\* segments no text of which went to the backend
CodeSegments == {k \in 0..(Len(Segments) - 1) : SentOf(k) = <<>>}
FenceCount == CountOcc(article.body, fence)

\* C4 as stated: a body with n fences has floor(n / 2) segments that are not sent
\* to the backend, and for odd n the text after the last fence is sent to it.
C4_FenceCountFloor ==
    pc = "body_done" =>
        /\ Cardinality(CodeSegments) = FenceCount \div 2
        /\ FenceCount % 2 = 1 => SentOf(FenceCount) # <<>>

\* C4 amended: a body with n fences has floor((n + 1) / 2) segments that are not
\* sent to the backend, and for odd n the text after the last, unterminated fence
\* is one of them: it is not sent and ends the output unchanged.
C4_FenceCountCeil ==
    pc = "body_done" =>
        /\ Len(Segments) = FenceCount + 1
        /\ Cardinality(CodeSegments) = (FenceCount + 1) \div 2
        /\ FenceCount % 2 = 1 =>
              /\ SentOf(FenceCount) = <<>>
              /\ SubSeq(translated_body,
                        Len(translated_body) - Len(Segments[FenceCount + 1]) + 1,
                        Len(translated_body)) = Segments[FenceCount + 1]

C4_Witness ==
    /\ pc = "body_done"
    /\ FenceCount = 3
    /\ Segments[4] # <<>>

\* C5: no text sent to the backend is longer than chunk_size; the texts sent for
\* a prose segment are, in order, a partition of the segment, and those of a
\* segment longer than chunk_size all have length chunk_size but the last.
C5_SizeThreshold ==
    /\ \A c \in 1..Len(sent) : Len(sent[c].text) <= chunk_size
    /\ \A c, d \in 1..Len(sent) : c < d => sent[c].seg <= sent[d].seg
    /\ \A k \in 0..(i - 1) :
          k % 2 = 0 =>
             /\ Concat(SentTexts(k)) = Segments[k + 1]
             /\ Len(Segments[k + 1]) > chunk_size =>
                   \A c \in 1..(Len(SentOf(k)) - 1) : Len(SentOf(k)[c].text) = chunk_size

C5_Witness ==
    /\ pc = "body_done"
    /\ \E k \in 0..(Len(Segments) - 1) :
          /\ Len(SentOf(k)) = 3
          /\ Len(SentOf(k)[3].text) < chunk_size

\* where segment k starts in the output: after the banner and, for every earlier
\* segment, its final text and its five-character separator
RECURSIVE OffsetOf(_)
OffsetOf(k) ==
    IF k = 0 THEN BannerLen
    ELSE OffsetOf(k - 1) + Len(split_body_list[k]) + Len(fence) + 2

\* C8: a segment at an odd position is never sent to the backend, is left as it
\* was in split_body_list (not repaired, not cut), and stands character for
\* character in the output at its place among the segments.
C8_CodeUntouched ==
    \A k \in 0..(i - 1) :
        k % 2 = 1 =>
            /\ SentOf(k) = <<>>
            /\ split_body_list[k + 1] = Segments[k + 1]
            /\ SubSeq(translated_body, OffsetOf(k) + 1, OffsetOf(k) + Len(Segments[k + 1]))
                  = Segments[k + 1]

C8_Witness ==
    /\ pc = "body_done"
    /\ backend = "artifacts"
    /\ Len(Segments) = 3
    /\ delete_redundant_space(Segments[2]) # Segments[2]
    /\ Segments[1] # <<>>

\* ---------------------------------------------------------------- claims on program
\* every even segment of the body has been through the backend
AllProseSent ==
    /\ i = Len(split_body_list)
    /\ \A k \in 0..(Len(split_body_list) - 1) : k % 2 = 0 => SentOf(k) # <<>>

\* C6: a request is sent only when every prose segment and the title of the
\* article have been translated, and it carries those translations; when a call
\* of the backend made for the body or the title raises, the program has failed,
\* no request of the run is for that article, and nothing is sent or translated
\* afterwards.
C6_NoPartialPublish ==
    /\ [](fail_at \in {"body", "title"} =>
            /\ pc = "failed"
            /\ \A n \in 1..Len(requests) : requests[n].source # article.id)
    /\ [][requests' # requests =>
            /\ fail_at = "none"
            /\ AllProseSent
            /\ title = Translate(backend, article.title)
            /\ Len(requests') = Len(requests) + 1
            /\ requests'[Len(requests')].body = translated_body
            /\ requests'[Len(requests')].title = title
            /\ requests'[Len(requests')].source = article.id]_vars
    /\ [][pc = "failed" => UNCHANGED <<pc, sent, requests>>]_vars

C6_Witness ==
    /\ pc = "failed"
    /\ fail_at = "title"
    /\ ret = "all"
    /\ Len(requests) = 1
    /\ requests[1].source # article.id

\* the text at the start of s
StartsWith(s, head) == Len(s) >= Len(head) /\ SubSeq(s, 1, Len(head)) = head

\* request r is the one the worklist entry e calls for
Dispatched(r, e) ==
    /\ r.source = e.value.id
    /\ e.key.kind = "int" => r.verb = "POST"
    /\ e.key.kind = "str" => r.verb = "PATCH" /\ r.id = e.key.s
    /\ StartsWith(r.body, banner_head \o e.value.id \o banner_mid \o e.value.url)
    /\ r.title = Translate(backend, e.value.title)

\* C7: in every run mode each request sent is the one its worklist entry calls
\* for (a create for an integer key, an update of the sibling for a sibling-id key,
\* carrying the translation of the entry), no entry gets two requests, an
\* automatic or all run that finishes has sent one request per entry in worklist
\* order, and a single selection that finishes has sent the request of the
\* selected entry alone.
C7_Dispatch ==
    pc \notin {"refetched", "rematched"} =>
        /\ \A n \in 1..Len(requests) :
              \E k \in 1..Len(new_items) : Dispatched(requests[n], new_items[k])
        /\ \A n, m \in 1..Len(requests) : n # m => requests[n].source # requests[m].source
        /\ (pc = "finished" /\ ret \in {"auto", "all"}) =>
              /\ Len(requests) = Len(new_items)
              /\ \A k \in 1..Len(new_items) : Dispatched(requests[k], new_items[k])
        /\ (pc = "finished" /\ ret = "single") =>
              /\ Len(requests) = 1
              /\ Dispatched(requests[1], [key |-> key, value |-> article])
              /\ \E k \in 1..Len(new_items) : new_items[k] = [key |-> key, value |-> article]

C7_Witness ==
    /\ pc = "finished"
    /\ ret = "single"
    /\ page_start = articles_per_page
    /\ requests[1].verb = "PATCH"
    /\ Len(new_items) > articles_per_page

ItemWithId(id) == items[CHOOSE k \in 1..Len(items) : items[k].id = id]

\* C9: the body _get_translated_body returns starts with the banner text holding
\* the id of the article, so the id is found in it; and in the next run an original
\* whose translation of this run is stored as an English item not older than the
\* original, and is the only translation mentioning its id, is not in the worklist.
C9_BannerClosure ==
    /\ pc = "body_done" =>
          /\ StartsWith(translated_body, banner_head \o article.id \o banner_mid)
          /\ Find(translated_body, article.id) >= 0
    /\ pc = "rematched" =>
          \A n \in 1..Len(published) :
              LET o == ItemWithId(published[n].source)
                  t == ItemWithId(published[n].id)
              IN (/\ requests[n].ok
                  /\ t.body = requests[n].body
                  /\ t.lang = "en"
                  /\ t.updated_at >= o.updated_at
                  /\ \A j \in 1..Len(Translations) :
                        Find(Translations[j].body, o.id) >= 0 => Translations[j].id = t.id)
                 => o \notin WorklistValues

C9_Witness ==
    /\ pc = "rematched"
    /\ \E n \in 1..Len(published) :
          /\ requests[n].verb = "POST"
          /\ Find(ItemWithId(published[n].id).body, published[n].source) >= 0
          /\ ItemWithId(published[n].id).lang = "en"
          /\ ItemWithId(published[n].id).updated_at = ItemWithId(published[n].source).updated_at
          /\ ItemWithId(published[n].source) \notin WorklistValues

====
